---- MODULE Spec2Model ----
(***************************************************************************)
(* spanlox: scanner -> parser -> tree-walking interpreter, driven by       *)
(* Lox.run from the prompt loop or from a file.                            *)
(*                                                                         *)
(* Source text is a sequence of one-character strings.  Indices kept in    *)
(* the state (start, current, parser_current) are Python's 0-based ones.   *)
(***************************************************************************)
EXTENDS Integers, Sequences, FiniteSets, TLC

VARIABLES
    mode,               \* "prompt" (run_prompt), "file" (run_file), "api" (interpret called
                        \* directly), "parser" (the Parser's methods called directly)
    pc,                 \* position inside Lox.main / Lox.run
    lines_read,         \* lines handed to Lox.run so far by run_prompt
    source,             \* Scanner.source
    start,              \* Scanner.start
    current,            \* Scanner.current
    line,               \* Scanner.line
    tokens,             \* Scanner.tokens
    had_error,          \* ErrorReporter.had_error
    had_runtime_error,  \* ErrorReporter.had_runtime_error
    stderr,             \* diagnostics written since Lox.run was entered
    expression,         \* the local `expression` of Lox.run
    parser_current,     \* Parser.current
    printed,            \* lines written by Interpreter.interpret since Lox.run was entered
    raised,             \* the exception that escaped to the top level (mode "parser": that
                        \* the last call raised to its caller), or "none"
    exit_status,        \* process exit status, or -1 while running
    called              \* methods of interest entered since Lox.run (mode "parser": the
                        \* last call) was entered

vars == <<mode, pc, lines_read, source, start, current, line, tokens, had_error,
          had_runtime_error, stderr, expression, parser_current, printed, raised,
          exit_status, called>>

(***************************************************************************)
(* Bounds of the model.                                                    *)
(***************************************************************************)
MaxPieces == 2      \* lexical pieces concatenated into a generated source line
MaxLines == 2       \* lines typed at the prompt of one Lox instance
MaxTokens == 3      \* tokens before the EOF token of a generated token sequence
MaxReports == 1     \* failing calls of Parser.consume on one Parser

(***************************************************************************)
(* Characters.                                                             *)
(***************************************************************************)
DigitChars == <<"0", "1", "2", "3", "4", "5", "6", "7", "8", "9">>

LetterChars == {"a", "b", "c", "d", "e", "f", "g", "h", "i", "j", "k", "l", "m",
                "n", "o", "p", "q", "r", "s", "t", "u", "v", "w", "x", "y", "z"}

\* U+00B2, a character of Unicode's category No: a digit to str.isdigit, and no
\* numeral to float
SUPERSCRIPT_TWO == "SUPERSCRIPT TWO"

\* the characters float accepts as digits
isdecimal(c) == \E i \in 1..Len(DigitChars) : DigitChars[i] = c

\* str.isdigit on one character of the model's alphabet
isdigit(c) == isdecimal(c) \/ c = SUPERSCRIPT_TWO

\* str.isalnum on one character
isalnum(c) == isdigit(c) \/ c \in LetterChars

\* str.isidentifier on one character: a letter or the underscore
isidentifier(c) == c \in LetterChars \/ c = "_"

\* the '\0' that Scanner.peek returns at the end of the source
NUL == "NUL"

\* code-point order of the characters that can occur inside a string literal
CharOrder == <<"\n", " ", "!", "(", ")", "*", "+", "-", ".", "/",
               "0", "1", "2", "3", "4", "5", "6", "7", "8", "9",
               "<", "=", ">", "@", "_",
               "a", "b", "c", "d", "e", "f", "g", "h", "i", "j", "k", "l", "m",
               "n", "o", "p", "q", "r", "s", "t", "u", "v", "w", "x", "y", "z",
               SUPERSCRIPT_TWO>>

ord(c) == CHOOSE i \in 1..Len(CharOrder) : CharOrder[i] = c

\* Python's s[a:b] for 0 <= a
Slice(s, a, b) == SubSeq(s, a + 1, IF b > Len(s) THEN Len(s) ELSE b)

(***************************************************************************)
(* Runtime values: Python's None, bool, int, float and str.  A number is   *)
(* the exact fraction num/den in lowest terms; a bool is the int 0 or 1,   *)
(* as in Python, where bool is a subclass of int.                          *)
(***************************************************************************)
Abs(n) == IF n < 0 THEN -n ELSE n

RECURSIVE Gcd(_, _)
Gcd(a, b) == IF b = 0 THEN a ELSE Gcd(b, a % b)

NoneValue == [kind |-> "nil", num |-> 0, den |-> 1, str |-> <<>>]
BoolValue(b) == [kind |-> "bool", num |-> IF b THEN 1 ELSE 0, den |-> 1, str |-> <<>>]
IntValue(n) == [kind |-> "int", num |-> n, den |-> 1, str |-> <<>>]
StrValue(s) == [kind |-> "str", num |-> 0, den |-> 1, str |-> s]

\* the float n/d, d # 0
FloatValue(n, d) ==
    LET g == Gcd(Abs(n), Abs(d))
        sgn == IF d < 0 THEN -1 ELSE 1
    IN  [kind |-> "float", num |-> sgn * (n \div g), den |-> sgn * (d \div g), str |-> <<>>]

\* isinstance(v, numbers.Number): int, float and, being an int, bool
IsNumber(v) == v.kind \in {"bool", "int", "float"}

\* isinstance(v, int)
IsInt(v) == v.kind \in {"bool", "int"}

\* isinstance(v, str)
IsStr(v) == v.kind = "str"

(***************************************************************************)
(* loxtoken.py                                                             *)
(***************************************************************************)
KEYWORDS ==
    [lexeme \in {<<"a", "n", "d">>, <<"c", "l", "a", "s", "s">>, <<"e", "l", "s", "e">>,
                 <<"f", "a", "l", "s", "e">>, <<"f", "u", "n">>, <<"i", "f">>,
                 <<"n", "i", "l">>, <<"o", "r">>, <<"p", "r", "i", "n", "t">>,
                 <<"r", "e", "t", "u", "r", "n">>, <<"s", "u", "p", "e", "r">>,
                 <<"t", "h", "i", "s">>, <<"t", "r", "u", "e">>, <<"v", "a", "r">>,
                 <<"w", "h", "i", "l", "e">>} |->
        CASE lexeme = <<"a", "n", "d">> -> "AND"
          [] lexeme = <<"c", "l", "a", "s", "s">> -> "CLASS"
          [] lexeme = <<"e", "l", "s", "e">> -> "ELSE"
          [] lexeme = <<"f", "a", "l", "s", "e">> -> "FALSE"
          [] lexeme = <<"f", "u", "n">> -> "FUN"
          [] lexeme = <<"i", "f">> -> "IF"
          [] lexeme = <<"n", "i", "l">> -> "NIL"
          [] lexeme = <<"o", "r">> -> "OR"
          [] lexeme = <<"p", "r", "i", "n", "t">> -> "PRINT"
          [] lexeme = <<"r", "e", "t", "u", "r", "n">> -> "RETURN"
          [] lexeme = <<"s", "u", "p", "e", "r">> -> "SUPER"
          [] lexeme = <<"t", "h", "i", "s">> -> "THIS"
          [] lexeme = <<"t", "r", "u", "e">> -> "TRUE"
          [] lexeme = <<"v", "a", "r">> -> "VAR"
          [] lexeme = <<"w", "h", "i", "l", "e">> -> "WHILE"]

\* Token.__init__; cls tells a Token object from a bare TokenType member
Token(token_type, lexeme, literal, ln) ==
    [cls |-> "Token", token_type |-> token_type, lexeme |-> lexeme,
     literal |-> literal, line |-> ln]

(***************************************************************************)
(* reporting.py: what a call leaves on stderr                              *)
(***************************************************************************)
\* ErrorReporter.report writes "[line N] Error<where>: <message>"
\* (where and message are the fragments the f-string joins)
Diagnostic(ln, where, message) == [line |-> ln, where |-> where, message |-> message]

\* ErrorReporter.scan_error
scan_error(ln, message) == Diagnostic(ln, <<>>, message)

\* ErrorReporter.parse_error
parse_error(token, message) ==
    IF token.token_type = "EOF"
    THEN Diagnostic(token.line, <<" at end">>, message)
    ELSE Diagnostic(token.line, <<" at '">> \o token.lexeme \o <<"'">>, message)

(***************************************************************************)
(* scanner.py                                                              *)
(***************************************************************************)
Scanner_is_at_end(src, cur) == cur >= Len(src)

Scanner_peek(src, cur) == IF Scanner_is_at_end(src, cur) THEN NUL ELSE src[cur + 1]

Scanner_peek_next(src, cur) == IF cur + 1 >= Len(src) THEN NUL ELSE src[cur + 2]

\* Scanner.match: the cursor after the call (moved when the next character is `expected`)
Scanner_match(src, cur, expected) ==
    IF Scanner_is_at_end(src, cur) THEN cur
    ELSE IF src[cur + 1] # expected THEN cur
    ELSE cur + 1

\* what one call of a tokenize_* method or of scan_token leaves behind
ScanResult(cur, ln, toks, errs, exc) ==
    [current |-> cur, line |-> ln, tokens |-> toks, errors |-> errs, raised |-> exc]

\* Scanner.add_token: the token appended
add_token(src, st, cur, ln, token_type, literal) ==
    Token(token_type, Slice(src, st, cur), literal, ln)

\* the while loop of tokenize_string
RECURSIVE StringLoop(_, _, _)
StringLoop(src, cur, ln) ==
    IF Scanner_peek(src, cur) # "\"" /\ ~Scanner_is_at_end(src, cur)
    THEN StringLoop(src, cur + 1, IF Scanner_peek(src, cur) = "\n" THEN ln + 1 ELSE ln)
    ELSE [current |-> cur, line |-> ln]

\* Scanner.tokenize_string, entered after the opening quote was consumed.
\* At the end of input scan_error is called and the advance() that follows
\* indexes source[len(source)]: IndexError.
tokenize_string(src, st, cur, ln) ==
    LET w == StringLoop(src, cur, ln)
    IN  IF Scanner_is_at_end(src, w.current)
        THEN ScanResult(w.current, w.line, <<>>,
                        <<scan_error(w.line, <<"Unterminated string">>)>>, "IndexError")
        ELSE ScanResult(w.current + 1, w.line,
                        <<add_token(src, st, w.current + 1, w.line, "STRING",
                                    StrValue(Slice(src, st + 1, w.current)))>>,
                        <<>>, "none")

\* while self.peek().isdigit(): self.advance()
RECURSIVE DigitLoop(_, _)
DigitLoop(src, cur) ==
    IF isdigit(Scanner_peek(src, cur)) THEN DigitLoop(src, cur + 1) ELSE cur

DigitValue(c) == (CHOOSE i \in 1..Len(DigitChars) : DigitChars[i] = c) - 1

RECURSIVE Pow10(_)
Pow10(k) == IF k = 0 THEN 1 ELSE 10 * Pow10(k - 1)

\* the digits of a numeral read as a natural number, a "." skipped
RECURSIVE DigitsToNat(_)
DigitsToNat(s) ==
    IF s = <<>> THEN 0
    ELSE IF s[Len(s)] = "." THEN DigitsToNat(SubSeq(s, 1, Len(s) - 1))
    ELSE 10 * DigitsToNat(SubSeq(s, 1, Len(s) - 1)) + DigitValue(s[Len(s)])

\* number of digits after the "." of a numeral
FractionDigits(s) ==
    IF \E i \in 1..Len(s) : s[i] = "."
    THEN Len(s) - (CHOOSE i \in 1..Len(s) : s[i] = ".")
    ELSE 0

\* float(text) for text of the shape digits or digits.digits
float(s) == FloatValue(DigitsToNat(s), Pow10(FractionDigits(s)))

\* whether float(text) returns, for text made of str.isdigit characters and "."
isnumeral(s) == \A i \in 1..Len(s) : s[i] = "." \/ isdecimal(s[i])

\* Scanner.tokenize_number, entered after the first digit was consumed; float
\* raises ValueError on text it cannot read
tokenize_number(src, st, cur, ln) ==
    LET whole == DigitLoop(src, cur)
        fin == IF Scanner_peek(src, whole) = "." /\ isdigit(Scanner_peek_next(src, whole))
               THEN DigitLoop(src, whole + 1)
               ELSE whole
    IN  IF isnumeral(Slice(src, st, fin))
        THEN ScanResult(fin, ln,
                        <<add_token(src, st, fin, ln, "NUMBER", float(Slice(src, st, fin)))>>,
                        <<>>, "none")
        ELSE ScanResult(fin, ln, <<>>, <<>>, "ValueError")

\* while self.peek().isalnum(): self.advance()
RECURSIVE AlnumLoop(_, _)
AlnumLoop(src, cur) ==
    IF isalnum(Scanner_peek(src, cur)) THEN AlnumLoop(src, cur + 1) ELSE cur

\* Scanner.tokenize_identifier, entered after the first character was consumed
tokenize_identifier(src, st, cur, ln) ==
    LET fin == AlnumLoop(src, cur)
        identifier == Slice(src, st, fin)
    IN  ScanResult(fin, ln,
                   <<add_token(src, st, fin, ln,
                               IF identifier \in DOMAIN KEYWORDS
                               THEN KEYWORDS[identifier] ELSE "IDENTIFIER",
                               NoneValue)>>,
                   <<>>, "none")

\* the comment loop of scan_token: up to, not including, the newline
RECURSIVE CommentLoop(_, _)
CommentLoop(src, cur) ==
    IF Scanner_peek(src, cur) # "\n" /\ ~Scanner_is_at_end(src, cur)
    THEN CommentLoop(src, cur + 1)
    ELSE cur

SingleCharTokens ==
    [c \in {"(", ")", "{", "}", ",", ".", "-", "+", ";", "*"} |->
        CASE c = "(" -> "LEFT_PAREN"
          [] c = ")" -> "RIGHT_PAREN"
          [] c = "{" -> "LEFT_BRACE"
          [] c = "}" -> "RIGHT_BRACE"
          [] c = "," -> "COMMA"
          [] c = "." -> "DOT"
          [] c = "-" -> "MINUS"
          [] c = "+" -> "PLUS"
          [] c = ";" -> "SEMICOLON"
          [] c = "*" -> "STAR"]

\* the kinds of "!", "=", "<", ">" alone and followed by "="
TwoCharTokens ==
    [c \in {"!", "=", "<", ">"} |->
        CASE c = "!" -> <<"BANG", "BANG_EQUAL">>
          [] c = "=" -> <<"EQUAL", "EQUAL_EQUAL">>
          [] c = "<" -> <<"LESS", "LESS_EQUAL">>
          [] c = ">" -> <<"GREATER", "GREATER_EQUAL">>]

\* Scanner.scan_token with self.start = st = self.current on entry
scan_token(src, st, ln) ==
    LET char == src[st + 1]
        cur == st + 1
    IN  IF char \in DOMAIN SingleCharTokens
        THEN ScanResult(cur, ln,
                        <<add_token(src, st, cur, ln, SingleCharTokens[char], NoneValue)>>,
                        <<>>, "none")
        ELSE IF char \in DOMAIN TwoCharTokens
        THEN LET after == Scanner_match(src, cur, "=")
             IN  ScanResult(after, ln,
                            <<add_token(src, st, after, ln,
                                        TwoCharTokens[char][IF after > cur THEN 2 ELSE 1],
                                        NoneValue)>>,
                            <<>>, "none")
        ELSE IF char = "/"
        THEN IF Scanner_match(src, cur, "/") > cur
             THEN ScanResult(CommentLoop(src, cur + 1), ln, <<>>, <<>>, "none")
             ELSE ScanResult(cur, ln, <<add_token(src, st, cur, ln, "SLASH", NoneValue)>>,
                             <<>>, "none")
        ELSE IF char = " " \/ char = "\r" \/ char = "\t"
        THEN ScanResult(cur, ln, <<>>, <<>>, "none")
        ELSE IF char = "\n"
        THEN ScanResult(cur, ln + 1, <<>>, <<>>, "none")
        ELSE IF char = "\""
        THEN tokenize_string(src, st, cur, ln)
        ELSE IF isdigit(char)
        THEN tokenize_number(src, st, cur, ln)
        ELSE IF isidentifier(char)
        THEN tokenize_identifier(src, st, cur, ln)
        ELSE ScanResult(cur, ln, <<>>,
                        <<scan_error(ln, <<"Unexpected character [", char, "]">>)>>, "none")

(***************************************************************************)
(* Expression nodes (expression.py, loxparser.py)                          *)
(***************************************************************************)
Literal(value) == [type |-> "Literal", value |-> value]
Grouping(e) == [type |-> "Grouping", expression |-> e]
Unary(operator, right) == [type |-> "Unary", operator |-> operator, right |-> right]
Binary(left, operator, right) ==
    [type |-> "Binary", left |-> left, operator |-> operator, right |-> right]

\* Python's None where an expression was expected
NoneExpr == [type |-> "None"]

(***************************************************************************)
(* loxparser.py: the cursor primitives.  `toks` ends in an EOF token.      *)
(***************************************************************************)
Parser_peek(toks, cur) == toks[cur + 1]

\* tokens[current - 1]; at current = 0 Python's index -1 is the last token
Parser_previous(toks, cur) == IF cur = 0 THEN toks[Len(toks)] ELSE toks[cur]

Parser_is_at_end(toks, cur) == Parser_peek(toks, cur).token_type = "EOF"

check(toks, cur, token_type) ==
    IF Parser_is_at_end(toks, cur) THEN FALSE
    ELSE Parser_peek(toks, cur).token_type = token_type

\* Parser.advance without its test of is_at_end
advance_always(toks, cur) == cur + 1

\* Parser.advance: the cursor after the call
Parser_advance(toks, cur) == IF ~Parser_is_at_end(toks, cur) THEN cur + 1 ELSE cur

\* Parser.match over the kinds `types`: whether one matched, and the cursor after
Parser_match(toks, cur, types) ==
    IF \E i \in 1..Len(types) : check(toks, cur, types[i])
    THEN [matched |-> TRUE, current |-> Parser_advance(toks, cur)]
    ELSE [matched |-> FALSE, current |-> cur]

\* a production that returned `e` with the cursor at `cur`
Parsed(e, cur) == [ok |-> TRUE, expr |-> e, current |-> cur, errors |-> <<>>]

\* Parser.error followed by the raise: parse_error is called at once, and the
\* ParseError unwinds to Parser.parse
error(cur, token, message) ==
    [ok |-> FALSE, expr |-> NoneExpr, current |-> cur,
     errors |-> <<parse_error(token, message)>>]

\* Parser.consume
consume(toks, cur, token_type, message) ==
    IF check(toks, cur, token_type)
    THEN Parsed(NoneExpr, Parser_advance(toks, cur))
    ELSE error(cur, Parser_peek(toks, cur), message)

(***************************************************************************)
(* loxparser.py: the productions                                           *)
(***************************************************************************)
RECURSIVE Parser_expression(_, _), equality(_, _), equality_loop(_, _),
          comparison(_, _), comparison_loop(_, _), term(_, _), term_loop(_, _),
          factor(_, _), factor_loop(_, _), unary(_, _), primary(_, _)

\* Binary folding that swallows the ParseError of the right operand and keeps
\* the tree built so far
fold_keeping_left(l, operator, r) ==
    IF ~r.ok
    THEN [ok |-> TRUE, expr |-> l.expr, current |-> r.current, errors |-> l.errors \o r.errors]
    ELSE Parsed(Binary(l.expr, operator, r.expr), r.current)

\* Binary folding that hangs the new operand under the right end of the chain
fold_right(l, operator, r) ==
    IF ~r.ok THEN r
    ELSE IF l.expr.type = "Binary"
    THEN Parsed(Binary(l.expr.left, l.expr.operator,
                       Binary(l.expr.right, operator, r.expr)), r.current)
    ELSE Parsed(Binary(l.expr, operator, r.expr), r.current)

\* expr = Binary(expr, operator, right), unless parsing the right operand raised
fold(l, operator, r) ==
    IF ~r.ok THEN r ELSE Parsed(Binary(l.expr, operator, r.expr), r.current)

\* Parser.expression
Parser_expression(toks, cur) == equality(toks, cur)

equality(toks, cur) == equality_loop(toks, comparison(toks, cur))

\* the while loop of equality; `l` is what has been parsed so far
equality_loop(toks, l) ==
    LET m == Parser_match(toks, l.current, <<"BANG_EQUAL", "EQUAL_EQUAL">>)
    IN  IF ~l.ok \/ ~m.matched THEN l
        ELSE equality_loop(toks, fold(l, Parser_previous(toks, m.current),
                                      comparison(toks, m.current)))

comparison(toks, cur) == comparison_loop(toks, term(toks, cur))

\* the while loop of comparison
comparison_loop(toks, l) ==
    LET m == Parser_match(toks, l.current,
                          <<"GREATER", "GREATER_EQUAL", "LESS", "LESS_EQUAL">>)
    IN  IF ~l.ok \/ ~m.matched THEN l
        ELSE comparison_loop(toks, fold(l, Parser_previous(toks, m.current),
                                        term(toks, m.current)))

term(toks, cur) == term_loop(toks, factor(toks, cur))

\* the while loop of term
term_loop(toks, l) ==
    LET m == Parser_match(toks, l.current, <<"MINUS", "PLUS">>)
    IN  IF ~l.ok \/ ~m.matched THEN l
        ELSE term_loop(toks, fold(l, Parser_previous(toks, m.current),
                                  factor(toks, m.current)))

factor(toks, cur) == factor_loop(toks, unary(toks, cur))

\* the loop of factor made to take the operators of term as well
RECURSIVE factor_loop_any(_, _)
factor_loop_any(toks, l) ==
    LET m == Parser_match(toks, l.current, <<"SLASH", "STAR", "MINUS", "PLUS">>)
    IN  IF ~l.ok \/ ~m.matched THEN l
        ELSE factor_loop_any(toks, fold(l, Parser_previous(toks, m.current),
                                        unary(toks, m.current)))

\* the while loop of factor
factor_loop(toks, l) ==
    LET m == Parser_match(toks, l.current, <<"SLASH", "STAR">>)
    IN  IF ~l.ok \/ ~m.matched THEN l
        ELSE factor_loop(toks, fold(l, Parser_previous(toks, m.current),
                                    unary(toks, m.current)))

\* return Unary(operator, right), unless parsing the operand raised
prefix(operator, r) ==
    IF ~r.ok THEN r ELSE Parsed(Unary(operator, r.expr), r.current)

unary(toks, cur) ==
    LET m == Parser_match(toks, cur, <<"BANG", "MINUS">>)
    IN  IF m.matched
        THEN prefix(Parser_previous(toks, m.current), unary(toks, m.current))
        ELSE primary(toks, cur)

\* the "(" branch of primary once the inner expression `e` was parsed
group(toks, e) ==
    LET c == consume(toks, e.current, "RIGHT_PAREN", <<"Expect ')' after expression.">>)
    IN  IF ~e.ok THEN e
        ELSE IF ~c.ok THEN c
        ELSE Parsed(Grouping(e.expr), c.current)

primary(toks, cur) ==
    IF Parser_match(toks, cur, <<"FALSE">>).matched
    THEN Parsed(Literal(BoolValue(FALSE)), Parser_match(toks, cur, <<"FALSE">>).current)
    ELSE IF Parser_match(toks, cur, <<"TRUE">>).matched
    THEN Parsed(Literal(BoolValue(TRUE)), Parser_match(toks, cur, <<"TRUE">>).current)
    ELSE IF Parser_match(toks, cur, <<"NIL">>).matched
    THEN Parsed(Literal(NoneValue), Parser_match(toks, cur, <<"NIL">>).current)
    ELSE IF Parser_match(toks, cur, <<"NUMBER", "STRING">>).matched
    THEN LET after == Parser_match(toks, cur, <<"NUMBER", "STRING">>).current
         IN  Parsed(Literal(Parser_previous(toks, after).literal), after)
    ELSE IF Parser_match(toks, cur, <<"LEFT_PAREN">>).matched
    THEN group(toks, Parser_expression(toks, Parser_match(toks, cur, <<"LEFT_PAREN">>).current))
    ELSE error(cur, Parser_peek(toks, cur), <<"Expect expression.">>)

\* Parser.parse: the tree, or None once a ParseError was raised
parse(toks) == Parser_expression(toks, 0)

(***************************************************************************)
(* Python's operators on the runtime values                                *)
(***************************************************************************)
\* where no operator is held
NoOperator ==
    [cls |-> "None", token_type |-> "", lexeme |-> <<>>, literal |-> NoneValue, line |-> 0]

\* an evaluation that returned `v`
Returned(v) ==
    [exc |-> "none", value |-> v, message |-> <<>>, attrs |-> {}, operator |-> NoOperator]

\* an evaluation that raised `exc`, an exception object with the message `message`
\* whose other attributes are `attrs`
Raised(exc, message, attrs) ==
    [exc |-> exc, value |-> NoneValue, message |-> message, attrs |-> attrs,
     operator |-> NoOperator]

\* an int when both operands are ints (bool included), a float otherwise
NumResult(n, d, isint) == IF isint THEN IntValue(n) ELSE FloatValue(n, d)

RECURSIVE Repeat(_, _)
Repeat(s, n) == IF n <= 0 THEN <<>> ELSE s \o Repeat(s, n - 1)

\* s < t for two strs: lexicographic by code point
RECURSIVE StrLess(_, _)
StrLess(s, t) ==
    IF t = <<>> THEN FALSE
    ELSE IF s = <<>> THEN TRUE
    ELSE IF s[1] # t[1] THEN ord(s[1]) < ord(t[1])
    ELSE StrLess(Tail(s), Tail(t))

\* left - right
PySub(l, r) ==
    IF IsNumber(l) /\ IsNumber(r)
    THEN Returned(NumResult(l.num * r.den - r.num * l.den, l.den * r.den,
                            IsInt(l) /\ IsInt(r)))
    ELSE Raised("TypeError", <<"unsupported operand type(s) for -">>, {})

\* left / right
PyTrueDiv(l, r) ==
    IF IsNumber(l) /\ IsNumber(r)
    THEN IF r.num = 0
         THEN Raised("ZeroDivisionError", <<"division by zero">>, {})
         ELSE Returned(FloatValue(l.num * r.den, l.den * r.num))
    ELSE Raised("TypeError", <<"unsupported operand type(s) for /">>, {})

\* left * right; a str times an int repeats the str
PyMul(l, r) ==
    IF IsNumber(l) /\ IsNumber(r)
    THEN Returned(NumResult(l.num * r.num, l.den * r.den, IsInt(l) /\ IsInt(r)))
    ELSE IF IsStr(l) /\ IsInt(r) THEN Returned(StrValue(Repeat(l.str, r.num)))
    ELSE IF IsInt(l) /\ IsStr(r) THEN Returned(StrValue(Repeat(r.str, l.num)))
    ELSE Raised("TypeError", <<"unsupported operand type(s) for *">>, {})

\* left + right for two numbers or two strs
PyAdd(l, r) ==
    IF IsStr(l)
    THEN StrValue(l.str \o r.str)
    ELSE NumResult(l.num * r.den + r.num * l.den, l.den * r.den, IsInt(l) /\ IsInt(r))

\* left < right
PyLess(l, r) ==
    IF IsNumber(l) /\ IsNumber(r) THEN l.num * r.den < r.num * l.den
    ELSE StrLess(l.str, r.str)

\* left == right
PyEq(l, r) ==
    IF IsNumber(l) /\ IsNumber(r) THEN l.num = r.num /\ l.den = r.den
    ELSE IF IsStr(l) /\ IsStr(r) THEN l.str = r.str
    ELSE l.kind = "nil" /\ r.kind = "nil"

\* >, >=, <, <= : defined between two numbers and between two strs
PyCompare(token_type, l, r) ==
    IF (IsNumber(l) /\ IsNumber(r)) \/ (IsStr(l) /\ IsStr(r))
    THEN Returned(BoolValue(CASE token_type = "GREATER" -> PyLess(r, l)
                              [] token_type = "GREATER_EQUAL" -> ~PyLess(l, r)
                              [] token_type = "LESS" -> PyLess(l, r)
                              [] token_type = "LESS_EQUAL" -> ~PyLess(r, l)))
    ELSE Raised("TypeError", <<"ordering not supported between instances">>, {})

(***************************************************************************)
(* interpreter.py                                                          *)
(***************************************************************************)
\* a member of the TokenType enum, as distinct from a Token object
TokenTypeMember(token_type) ==
    [cls |-> "TokenType", token_type |-> token_type, lexeme |-> <<>>,
     literal |-> NoneValue, line |-> 0]

\* LoxRuntimeError(operator, message): __init__ stores `operator` and nothing else
LoxRuntimeError(operator, message) ==
    [Raised("LoxRuntimeError", message, {"args", "operator"}) EXCEPT !.operator = operator]

is_truthy(obj) ==
    IF obj.kind = "nil" THEN FALSE
    ELSE IF obj.kind = "bool" THEN obj.num = 1
    ELSE TRUE

is_equal(a, b) == PyEq(a, b)

\* Interpreter.check_number_operand
check_number_operand(operator, right) ==
    IF ~IsNumber(right)
    THEN LoxRuntimeError(operator, <<"Operand must be a number">>)
    ELSE Returned(NoneValue)

RECURSIVE evaluate(_)

visit_literal(expr) == Returned(expr.value)

\* visit_grouping once the inner expression was evaluated: its value is dropped,
\* the method has no return statement
grouping(inner) == IF inner.exc # "none" THEN inner ELSE Returned(NoneValue)

visit_grouping(expr) == grouping(evaluate(expr.expression))

\* visit_unary once the operand was evaluated; expr.operator is compared with the
\* TokenType members themselves
negate(operator, right) ==
    IF right.exc # "none" THEN right
    ELSE IF operator = TokenTypeMember("BANG")
    THEN Returned(BoolValue(is_truthy(right.value)))
    ELSE IF operator = TokenTypeMember("MINUS")
    THEN IF check_number_operand(operator, right.value).exc # "none"
         THEN check_number_operand(operator, right.value)
         ELSE Returned(FloatValue(-right.value.num, right.value.den))
    ELSE Returned(NoneValue)

visit_unary(expr) == negate(expr.operator, evaluate(expr.right))

\* visit_binary once both operands were evaluated, left first
binary(operator, left, right) ==
    IF left.exc # "none" THEN left
    ELSE IF right.exc # "none" THEN right
    ELSE IF operator.cls # "Token"
    THEN Raised("AttributeError", <<"token_type">>, {})
    ELSE IF operator.token_type = "MINUS" THEN PySub(left.value, right.value)
    ELSE IF operator.token_type = "SLASH" THEN PyTrueDiv(left.value, right.value)
    ELSE IF operator.token_type = "STAR" THEN PyMul(left.value, right.value)
    ELSE IF operator.token_type = "PLUS"
    THEN IF IsNumber(left.value) /\ IsNumber(right.value)
         THEN Returned(PyAdd(left.value, right.value))
         ELSE IF IsStr(left.value) /\ IsStr(right.value)
         THEN Returned(PyAdd(left.value, right.value))
         ELSE Raised("InterpretationError", <<"mismatched types">>, {"args"})
    ELSE IF operator.token_type \in {"GREATER", "GREATER_EQUAL", "LESS", "LESS_EQUAL"}
    THEN PyCompare(operator.token_type, left.value, right.value)
    ELSE IF operator.token_type = "BANG_EQUAL"
    THEN Returned(BoolValue(~is_equal(left.value, right.value)))
    ELSE IF operator.token_type = "EQUAL_EQUAL"
    THEN Returned(BoolValue(is_equal(left.value, right.value)))
    ELSE Returned(NoneValue)

visit_binary(expr) == binary(expr.operator, evaluate(expr.left), evaluate(expr.right))

\* Interpreter.evaluate -> Expr.accept -> Visitor.visit: the handler is found by
\* the node's class name; None has no accept
evaluate(expr) ==
    CASE expr.type = "Literal" -> visit_literal(expr)
      [] expr.type = "Grouping" -> visit_grouping(expr)
      [] expr.type = "Unary" -> visit_unary(expr)
      [] expr.type = "Binary" -> visit_binary(expr)
      [] OTHER -> Raised("AttributeError", <<"accept">>, {})

\* the decimal digits of a natural number
RECURSIVE Decimal(_)
Decimal(n) ==
    IF n < 10 THEN <<DigitChars[n + 1]>>
    ELSE Decimal(n \div 10) \o <<DigitChars[(n % 10) + 1]>>

\* str(int)
IntText(n) == IF n < 0 THEN <<"-">> \o Decimal(-n) ELSE Decimal(n)

\* the number of decimal places after which den divides a power of ten, at most
\* 6, or -1 when there is none
DecimalPlaces(den) ==
    IF \E k \in 0..6 : Pow10(k) % den = 0
    THEN CHOOSE k \in 0..6 : Pow10(k) % den = 0 /\ \A j \in 0..(k - 1) : Pow10(j) % den # 0
    ELSE -1

\* zero-padded to `width` digits
RECURSIVE Padded(_, _)
Padded(digits, width) == IF Len(digits) >= width THEN digits ELSE Padded(<<"0">> \o digits, width)

\* str(float): "3.0", "1.5"; a fraction with no short decimal expansion prints
\* the repr of the nearest double, kept here as num/den
FloatText(v) ==
    LET k == DecimalPlaces(v.den)
        scaled == Abs(v.num) * (Pow10(k) \div v.den)
        sign == IF v.num < 0 THEN <<"-">> ELSE <<>>
    IN  IF v.den = 1 THEN IntText(v.num) \o <<".", "0">>
        ELSE IF k = -1 THEN IntText(v.num) \o <<"/">> \o IntText(v.den)
        ELSE sign \o Decimal(scaled \div Pow10(k)) \o <<".">>
                  \o Padded(Decimal(scaled % Pow10(k)), k)

\* Interpreter.stringify
stringify(obj) ==
    CASE obj.kind = "nil" -> <<"n", "i", "l">>
      [] obj.kind = "bool" -> IF obj.num = 1 THEN <<"T", "r", "u", "e">>
                              ELSE <<"F", "a", "l", "s", "e">>
      [] obj.kind = "int" -> IntText(obj.num)
      [] obj.kind = "float" -> FloatText(obj)
      [] obj.kind = "str" -> obj.str

(***************************************************************************)
(* astprinter.py                                                           *)
(***************************************************************************)
\* ' '.join(str_arr)
RECURSIVE join(_)
join(str_arr) ==
    IF str_arr = <<>> THEN <<>>
    ELSE IF Len(str_arr) = 1 THEN str_arr[1]
    ELSE str_arr[1] \o <<" ">> \o join(Tail(str_arr))

\* AstPrinter.parenthesize once each argument was printed
parenthesize(name, str_arr) ==
    IF str_arr = <<>> THEN name
    ELSE <<"(">> \o name \o <<" ">> \o join(str_arr) \o <<")">>

\* AstPrinter.visit_literal: "nil" for None, str(value) otherwise
AstPrinter_visit_literal(expr) == stringify(expr.value)

\* AstPrinter.print -> Expr.accept -> AstPrinter.visit
RECURSIVE AstPrinter_print(_)
AstPrinter_print(expr) ==
    CASE expr.type = "Literal" -> AstPrinter_visit_literal(expr)
      [] expr.type = "Grouping" ->
            parenthesize(<<"g", "r", "o", "u", "p">>, <<AstPrinter_print(expr.expression)>>)
      [] expr.type = "Unary" ->
            parenthesize(expr.operator.lexeme, <<AstPrinter_print(expr.right)>>)
      [] expr.type = "Binary" ->
            parenthesize(expr.operator.lexeme,
                         <<AstPrinter_print(expr.left), AstPrinter_print(expr.right)>>)

(***************************************************************************)
(* reporting.py: the reporter's state is [had_error, had_runtime_error,    *)
(* stderr]                                                                 *)
(***************************************************************************)
\* ErrorReporter.report that writes the diagnostic and leaves had_error alone
report_without_flag(rep, diagnostic) ==
    [rep EXCEPT !.stderr = Append(@, diagnostic)]

\* ErrorReporter.report
report(rep, diagnostic) ==
    [rep EXCEPT !.stderr = Append(@, diagnostic), !.had_error = TRUE]

\* scan_error / parse_error -> report, for each diagnostic of one step
RECURSIVE ReportAll(_, _)
ReportAll(rep, diagnostics) ==
    IF diagnostics = <<>> THEN rep
    ELSE ReportAll(report(rep, Head(diagnostics)), Tail(diagnostics))

\* ErrorReporter.runtime_error: reads error.token, which no LoxRuntimeError has
\* (its attribute is `operator`); past that it would write the message and the
\* line and assign False to had_runtime_error
runtime_error(rep, err) ==
    IF "token" \notin err.attrs
    THEN [rep |-> rep, raised |-> "AttributeError"]
    ELSE [rep |-> [rep EXCEPT !.stderr = Append(@, Diagnostic(0, <<>>, err.message)),
                              !.had_runtime_error = FALSE],
          raised |-> "none"]

\* Interpreter.interpret once evaluate returned or raised `r`: what is printed,
\* the reporter afterwards, the exception that escapes, and whether
\* runtime_error was entered
interpreted(rep, r) ==
    IF r.exc = "none"
    THEN [printed |-> <<stringify(r.value)>>, rep |-> rep, raised |-> "none",
          reported |-> FALSE]
    ELSE IF r.exc = "LoxRuntimeError"
    THEN [printed |-> <<>>, rep |-> runtime_error(rep, r).rep,
          raised |-> runtime_error(rep, r).raised, reported |-> TRUE]
    ELSE [printed |-> <<>>, rep |-> rep, raised |-> r.exc, reported |-> FALSE]

\* Interpreter.interpret
interpret(rep, expr) == interpreted(rep, evaluate(expr))

(***************************************************************************)
(* Inputs                                                                  *)
(***************************************************************************)
\* the lexical pieces that generated source lines are made of
Pieces ==
    {<<"n", "i", "l">>,
     <<"t", "r", "u", "e">>,
     <<"f", "a", "l", "s", "e">>,
     <<"0">>,
     <<"1">>,
     <<"\"", "x", "\"">>,
     <<"(">>,
     <<")">>,
     <<"-">>,
     <<"+">>,
     <<"*">>,
     <<"/">>,
     <<"!">>,
     <<"=", "=">>,
     <<"<">>,
     <<" ">>,
     <<"@">>,
     <<"\"">>}

\* one literal of each kind of value, and the values Python treats as special
LiteralPieces ==
    {<<"n", "i", "l">>,
     <<"t", "r", "u", "e">>,
     <<"f", "a", "l", "s", "e">>,
     <<"0">>,
     <<"1">>,
     <<"\"", "x", "\"">>,
     <<"\"", "\"">>}

\* the binary operators of the grammar
OperatorPieces ==
    {<<"+">>,
     <<"-">>,
     <<"*">>,
     <<"/">>,
     <<"=", "=">>,
     <<"!", "=">>,
     <<"<">>,
     <<"<", "=">>,
     <<">">>,
     <<">", "=">>}

\* the documented examples, and lines that reach what the generated ones do not
Examples ==
    {<<"\"", "a", "b", "c">>,
     <<"(", "1", " ", "+", " ", "2", ")", " ", "*", " ", "3">>,
     <<"-", " ", "-", " ", "5">>,
     <<"-", "\"", "x", "\"">>,
     <<"\"", "f", "o", "o", "\"", " ", "+", " ", "1">>,
     <<"\"", "f", "o", "o", "\"", " ", "+", " ", "\"", "b", "a", "r", "\"">>,
     <<"1", " ", "+", " ", "2">>,
     <<"8", " ", "-", " ", "4", " ", "-", " ", "2">>,
     <<"1", " ", "+", " ", "2", " ", "*", " ", "3">>,
     <<"(", "1", " ", "+", " ", "2">>,
     <<"1", " ", "=", "=", " ", "\"", "1", "\"">>,
     <<"n", "i", "l", " ", "=", "=", " ", "f", "a", "l", "s", "e">>,
     <<"n", "i", "l", " ", "=", "=", " ", "n", "i", "l">>,
     <<"!", "n", "i", "l">>,
     <<"!", "f", "a", "l", "s", "e">>,
     <<"!", "0">>,
     <<"!", "\"", "\"">>,
     <<"(", "1", ")">>,
     <<"1", ".", "5", " ", "/", " ", "2">>,
     <<"1", " ", "/", " ", "3">>,
     <<"t", "r", "u", "e", " ", "+", " ", "t", "r", "u", "e">>,
     <<"!", "(", "1", " ", "=", "=", " ", "1", ")">>,
     <<"-", "(", "0", " ", "-", " ", "1", ")">>,
     <<"f", "o", "r">>,
     <<"a", "_", "b">>,
     <<"1", ".">>,
     <<"2", " ", "*", " ", "\"", "x", "\"">>,
     <<"(", "t", "r", "u", "e", " ", "+", " ", "t", "r", "u", "e", ")", " ", "*", " ", "\"", "x", "\"">>,
     <<"1", " ", "<", "=", " ", "2", " ", "=", "=", " ", "t", "r", "u", "e">>,
     <<"1", " ", ";", " ", "2">>,
     <<"/", "/", " ", "1">>,
     <<SUPERSCRIPT_TWO>>,
     <<"1", SUPERSCRIPT_TWO>>,
     <<"a", SUPERSCRIPT_TWO>>,
     <<"1", " ", "@", " ", "2">>,
     <<"@", "@">>}

\* every reserved word of the language on a line of its own, and identifiers that
\* are not reserved, some of them beginning with a reserved word
WordSources ==
    {<<"a", "n", "d">>,
     <<"c", "l", "a", "s", "s">>,
     <<"e", "l", "s", "e">>,
     <<"f", "a", "l", "s", "e">>,
     <<"f", "u", "n">>,
     <<"f", "o", "r">>,
     <<"i", "f">>,
     <<"n", "i", "l">>,
     <<"o", "r">>,
     <<"p", "r", "i", "n", "t">>,
     <<"r", "e", "t", "u", "r", "n">>,
     <<"s", "u", "p", "e", "r">>,
     <<"t", "h", "i", "s">>,
     <<"t", "r", "u", "e">>,
     <<"v", "a", "r">>,
     <<"w", "h", "i", "l", "e">>,
     <<"f", "o", "o">>,
     <<"f", "o", "r", "t">>,
     <<"n", "i", "l", "e">>,
     <<"o", "r", "1">>,
     <<"x">>}

\* the operators of term and factor
ArithmeticPieces == {<<"+">>, <<"-">>, <<"*">>, <<"/">>}

\* 1 a 2 b 3 for every two binary operators a and b
ChainSources ==
    {<<"1">> \o a \o <<"2">> \o b \o <<"3">> : a \in OperatorPieces, b \in OperatorPieces}

\* (1 a 2) b 3 and 1 a (2 b 3) for the operators of term and factor
GroupedSources ==
    {<<"(", "1">> \o a \o <<"2", ")">> \o b \o <<"3">> :
        a \in ArithmeticPieces, b \in ArithmeticPieces}
    \cup {<<"1">> \o a \o <<"(", "2">> \o b \o <<"3", ")">> :
              a \in ArithmeticPieces, b \in ArithmeticPieces}

\* the concatenations of at most n pieces
RECURSIVE PieceStrings(_)
PieceStrings(n) ==
    IF n = 0 THEN {<<>>}
    ELSE LET shorter == PieceStrings(n - 1)
         IN  shorter \cup {s \o p : s \in shorter, p \in Pieces}

\* every literal against every literal under every binary operator
BinarySources == {l \o op \o r : l \in LiteralPieces, op \in OperatorPieces, r \in LiteralPieces}

\* the texts of one line: input() returns no newline
Sources ==
    PieceStrings(MaxPieces) \cup BinarySources \cup WordSources \cup ChainSources
        \cup GroupedSources \cup Examples

(***************************************************************************)
(* lox.py                                                                  *)
(***************************************************************************)
\* read_file: the text read is dropped and the initial '' returned
read_file(contents) == <<>>

\* the ErrorReporter of this Lox instance
reporter == [had_error |-> had_error, had_runtime_error |-> had_runtime_error,
             stderr |-> stderr]

\* an exception reaches the top level: traceback, exit status 1
Crash(exc) ==
    /\ pc' = "exited"
    /\ raised' = exc
    /\ exit_status' = 1

\* Lox.run entered with `text`: Scanner.__init__
EnterRun(text) ==
    /\ source' = text
    /\ start' = 0
    /\ current' = 0
    /\ line' = 1
    /\ tokens' = <<>>
    /\ pc' = "scan"

Init ==
    /\ mode = "none"
    /\ pc = "main"
    /\ lines_read = 0
    /\ source = <<>>
    /\ start = 0
    /\ current = 0
    /\ line = 1
    /\ tokens = <<>>
    /\ had_error = FALSE
    /\ had_runtime_error = FALSE
    /\ stderr = <<>>
    /\ expression = NoneExpr
    /\ parser_current = 0
    /\ printed = <<>>
    /\ raised = "none"
    /\ exit_status = -1
    /\ called = {}

\* Lox.main: more than one argument is a usage error, one is a script, none the prompt
Main ==
    /\ pc = "main"
    /\ \E nargs \in 0..2 :
        /\ mode' = CASE nargs = 0 -> "prompt" [] nargs = 1 -> "file" [] OTHER -> "usage"
        /\ pc' = CASE nargs = 0 -> "prompt" [] nargs = 1 -> "run_file" [] OTHER -> "exited"
        /\ exit_status' = IF nargs > 1 THEN 64 ELSE exit_status
    /\ UNCHANGED <<lines_read, source, start, current, line, tokens, had_error,
                   had_runtime_error, stderr, expression, parser_current, printed,
                   raised, called>>

\* run_prompt: a non-empty line is handed to Lox.run
PromptLine ==
    /\ pc = "prompt"
    /\ lines_read < MaxLines
    /\ \E text \in Sources \ {<<>>} : EnterRun(text)
    /\ lines_read' = lines_read + 1
    /\ UNCHANGED <<mode, had_error, had_runtime_error, stderr, expression,
                   parser_current, printed, raised, exit_status, called>>

\* run_prompt: the empty line ends the loop, and main returns
PromptQuit ==
    /\ pc = "prompt"
    /\ pc' = "exited"
    /\ exit_status' = 0
    /\ UNCHANGED <<mode, lines_read, source, start, current, line, tokens, had_error,
                   had_runtime_error, stderr, expression, parser_current, printed,
                   raised, called>>

\* run_file up to the call of Lox.run
RunFile ==
    /\ pc = "run_file"
    /\ \E contents \in Sources : EnterRun(read_file(contents))
    /\ UNCHANGED <<mode, lines_read, had_error, had_runtime_error, stderr, expression,
                   parser_current, printed, raised, exit_status, called>>

\* the turn of the loop in which scan_token did `r`, the reporter left as `rep`
Scanned(r, rep) ==
    /\ start' = current
    /\ current' = r.current
    /\ line' = r.line
    /\ tokens' = tokens \o r.tokens
    /\ had_error' = rep.had_error
    /\ stderr' = rep.stderr
    /\ called' = IF r.errors # <<>> THEN called \cup {"scan_error"} ELSE called
    /\ IF r.raised # "none"
       THEN Crash(r.raised)
       ELSE UNCHANGED <<pc, raised, exit_status>>

\* one turn of the loop of Scanner.scan_tokens
ScanToken ==
    /\ pc = "scan"
    /\ ~Scanner_is_at_end(source, current)
    /\ Scanned(scan_token(source, current, line),
               ReportAll(reporter, scan_token(source, current, line).errors))
    /\ UNCHANGED <<mode, lines_read, source, had_runtime_error, expression,
                   parser_current, printed>>

\* the end of Scanner.scan_tokens: the EOF token, whose literal is 'EOF' and whose
\* lexeme is source[start:current]
ScanEof ==
    /\ pc = "scan"
    /\ Scanner_is_at_end(source, current)
    /\ tokens' = Append(tokens, add_token(source, start, current, line, "EOF",
                                          StrValue(<<"E", "O", "F">>)))
    /\ pc' = "parse"
    /\ UNCHANGED <<mode, lines_read, source, start, current, line, had_error,
                   had_runtime_error, stderr, expression, parser_current, printed,
                   raised, exit_status, called>>

\* Parser.parse returned `p`, the reporter left as `rep`; then
\* `if self.error_reporter.had_error: return`
Parsing(p, rep) ==
    /\ expression' = p.expr
    /\ parser_current' = p.current
    /\ had_error' = rep.had_error
    /\ stderr' = rep.stderr
    /\ called' = IF p.errors # <<>> THEN called \cup {"parse_error"} ELSE called
    /\ pc' = IF rep.had_error THEN "returned" ELSE "interpret"

\* Lox.run from Parser(tokens, ...) through the test of had_error
Parse ==
    /\ pc = "parse"
    /\ Parsing(parse(tokens), ReportAll(reporter, parse(tokens).errors))
    /\ UNCHANGED <<mode, lines_read, source, start, current, line, tokens,
                   had_runtime_error, printed, raised, exit_status>>

\* Interpreter.interpret did `r`
Interpreting(r) ==
    /\ printed' = printed \o r.printed
    /\ had_error' = r.rep.had_error
    /\ had_runtime_error' = r.rep.had_runtime_error
    /\ stderr' = r.rep.stderr
    /\ called' = called \cup {"interpret"}
                        \cup (IF r.reported THEN {"runtime_error"} ELSE {})
    /\ IF r.raised # "none"
       THEN Crash(r.raised)
       ELSE /\ pc' = "returned"
            /\ UNCHANGED <<raised, exit_status>>

\* self.interpreter.interpret(expression)
Interpret ==
    /\ pc = "interpret"
    /\ Interpreting(interpret(reporter, expression))
    /\ UNCHANGED <<mode, lines_read, source, start, current, line, tokens, expression,
                   parser_current>>

\* Lox.run has returned to run_prompt: its locals are gone, the Lox instance and
\* its ErrorReporter stay
ReturnToPrompt ==
    /\ pc = "returned"
    /\ mode = "prompt"
    /\ pc' = "prompt"
    /\ source' = <<>>
    /\ start' = 0
    /\ current' = 0
    /\ line' = 1
    /\ tokens' = <<>>
    /\ expression' = NoneExpr
    /\ parser_current' = 0
    /\ stderr' = <<>>
    /\ printed' = <<>>
    /\ called' = {}
    /\ UNCHANGED <<mode, lines_read, had_error, had_runtime_error, raised, exit_status>>

\* Lox.run has returned to run_file: the exit status
ReturnToFile ==
    /\ pc = "returned"
    /\ mode = "file"
    /\ pc' = "exited"
    /\ exit_status' = IF had_error THEN 65 ELSE IF had_runtime_error THEN 70 ELSE 0
    /\ UNCHANGED <<mode, lines_read, source, start, current, line, tokens, had_error,
                   had_runtime_error, stderr, expression, parser_current, printed,
                   raised, called>>

Next ==
    \/ Main
    \/ PromptLine
    \/ PromptQuit
    \/ RunFile
    \/ ScanToken
    \/ ScanEof
    \/ Parse
    \/ Interpret
    \/ ReturnToPrompt
    \/ ReturnToFile

Spec == Init /\ [][Next]_vars

(***************************************************************************)
(* Interpreter.interpret called directly, on any tree of the declared node *)
(* types.  The operator field of a node holds a Token, as expression.py    *)
(* declares and the parser builds, or a TokenType member, as the node      *)
(* classes of loxparser.py declare and visit_unary expects.                *)
(***************************************************************************)
ApiValues ==
    {NoneValue, BoolValue(TRUE), BoolValue(FALSE), FloatValue(0, 1), FloatValue(1, 1),
     StrValue(<<"x">>), StrValue(<<>>)}

ApiLiterals == {Literal(v) : v \in ApiValues}

UnaryOperators ==
    {Token("BANG", <<"!">>, NoneValue, 1), Token("MINUS", <<"-">>, NoneValue, 1),
     TokenTypeMember("BANG"), TokenTypeMember("MINUS")}

BinaryOperators ==
    {Token("MINUS", <<"-">>, NoneValue, 1), Token("PLUS", <<"+">>, NoneValue, 1),
     Token("SLASH", <<"/">>, NoneValue, 1), Token("STAR", <<"*">>, NoneValue, 1),
     Token("LESS", <<"<">>, NoneValue, 1), Token("GREATER_EQUAL", <<">", "=">>, NoneValue, 1),
     Token("EQUAL_EQUAL", <<"=", "=">>, NoneValue, 1),
     Token("BANG_EQUAL", <<"!", "=">>, NoneValue, 1), TokenTypeMember("PLUS")}

\* the nodes with one operator over the trees of S
Wrapping(S) ==
    {Grouping(e) : e \in S} \cup {Unary(op, e) : op \in UnaryOperators, e \in S}

Combining(S) == {Binary(l, op, r) : l \in S, op \in BinaryOperators, r \in S}

ApiTrees ==
    ApiLiterals \cup Wrapping(ApiLiterals) \cup Combining(ApiLiterals)
        \cup Wrapping(Wrapping(ApiLiterals) \cup Combining(ApiLiterals))

InitEval ==
    /\ mode = "api"
    /\ pc = "interpret"
    /\ lines_read = 0
    /\ source = <<>>
    /\ start = 0
    /\ current = 0
    /\ line = 1
    /\ tokens = <<>>
    /\ had_error = FALSE
    /\ had_runtime_error = FALSE
    /\ stderr = <<>>
    /\ expression \in ApiTrees
    /\ parser_current = 0
    /\ printed = <<>>
    /\ raised = "none"
    /\ exit_status = -1
    /\ called = {}

NextEval == Interpret

SpecEval == InitEval /\ [][NextEval]_vars

(***************************************************************************)
(* The Parser's cursor methods called directly, in any order, on a Parser  *)
(* constructed over a token sequence that ends in EOF.  pc is "parser"     *)
(* between calls and "synchronize" inside the while loop of synchronize.   *)
(***************************************************************************)
\* a token that is neither `;` nor a keyword, a `;`, and two statement keywords
ParserTokens ==
    {Token("NUMBER", <<"1">>, FloatValue(1, 1), 1),
     Token("SEMICOLON", <<";">>, NoneValue, 1),
     Token("VAR", <<"v", "a", "r">>, NoneValue, 1),
     Token("FOR", <<"f", "o", "r">>, NoneValue, 1)}

\* the sequences of at most n of these tokens
RECURSIVE TokenStrings(_)
TokenStrings(n) ==
    IF n = 0 THEN {<<>>}
    ELSE LET shorter == TokenStrings(n - 1)
         IN  shorter \cup {Append(toks, t) : toks \in shorter, t \in ParserTokens}

\* the keywords Parser.synchronize stops in front of
StatementKinds == {"CLASS", "FUN", "VAR", "FOR", "IF", "WHILE", "PRINT", "RETURN"}

\* each of them behind two tokens that are discarded
KeywordSequences ==
    {<<Token("NUMBER", <<"1">>, FloatValue(1, 1), 1), Token("NUMBER", <<"1">>, FloatValue(1, 1), 1),
       Token(k, <<"k">>, NoneValue, 1)>> : k \in StatementKinds}

\* what Parser.__init__ is handed
TokenSequences ==
    {Append(toks, Token("EOF", <<>>, StrValue(<<"E", "O", "F">>), 1)) :
        toks \in TokenStrings(MaxTokens) \cup KeywordSequences}

\* the arguments the methods are called with
MatchArguments == {<<"NUMBER">>, <<"SEMICOLON", "VAR">>, <<"FOR", "EOF">>}
CheckArguments == {"NUMBER", "SEMICOLON", "EOF"}
ConsumeArguments == {"NUMBER", "SEMICOLON", "RIGHT_PAREN"}

\* Parser.__init__
InitParser ==
    /\ mode = "parser"
    /\ pc = "parser"
    /\ lines_read = 0
    /\ source = <<>>
    /\ start = 0
    /\ current = 0
    /\ line = 1
    /\ tokens \in TokenSequences
    /\ had_error = FALSE
    /\ had_runtime_error = FALSE
    /\ stderr = <<>>
    /\ expression = NoneExpr
    /\ parser_current = 0
    /\ printed = <<>>
    /\ raised = "none"
    /\ exit_status = -1
    /\ called = {}

\* a call that moved the cursor to `cur` and returned
Returns(cur) ==
    /\ pc = "parser"
    /\ parser_current' = cur
    /\ raised' = "none"
    /\ called' = {}
    /\ UNCHANGED <<mode, pc, lines_read, source, start, current, line, tokens, had_error,
                   had_runtime_error, stderr, expression, printed, exit_status>>

\* a call that indexed the token list outside its range
RaisesIndexError ==
    /\ pc = "parser"
    /\ raised' = "IndexError"
    /\ called' = {}
    /\ UNCHANGED <<mode, pc, lines_read, source, start, current, line, tokens, had_error,
                   had_runtime_error, stderr, expression, parser_current, printed,
                   exit_status>>

\* Parser.peek: self.tokens[self.current]
Peek ==
    IF parser_current < Len(tokens) THEN Returns(parser_current) ELSE RaisesIndexError

\* Parser.previous: self.tokens[self.current - 1], the last token when current is 0
Previous ==
    IF parser_current - 1 < Len(tokens) THEN Returns(parser_current) ELSE RaisesIndexError

\* Parser.check
Check ==
    \E token_type \in CheckArguments :
        IF parser_current < Len(tokens) THEN Returns(parser_current) ELSE RaisesIndexError

\* Parser.advance
Advance ==
    IF parser_current < Len(tokens)
    THEN Returns(Parser_advance(tokens, parser_current))
    ELSE RaisesIndexError

\* Parser.match
Match ==
    \E types \in MatchArguments :
        IF parser_current < Len(tokens)
        THEN Returns(Parser_match(tokens, parser_current, types).current)
        ELSE RaisesIndexError

\* Parser.consume did `c`, the reporter left as `rep`: the token is consumed, or
\* Parser.error reports and the ParseError is raised to the caller
Consumed(c, rep) ==
    /\ pc = "parser"
    /\ c.ok \/ Len(stderr) < MaxReports
    /\ parser_current' = c.current
    /\ had_error' = rep.had_error
    /\ stderr' = rep.stderr
    /\ raised' = IF c.ok THEN "none" ELSE "ParseError"
    /\ called' = IF c.ok THEN {} ELSE {"parse_error"}
    /\ UNCHANGED <<mode, pc, lines_read, source, start, current, line, tokens,
                   had_runtime_error, expression, printed, exit_status>>

\* Parser.consume
Consume ==
    \E token_type \in ConsumeArguments :
        IF parser_current < Len(tokens)
        THEN Consumed(consume(tokens, parser_current, token_type,
                              <<"Expect ')' after expression.">>),
                      ReportAll(reporter,
                                consume(tokens, parser_current, token_type,
                                        <<"Expect ')' after expression.">>).errors))
        ELSE RaisesIndexError

\* a test of the next token that answers yes for every token
begins_anything(token_type) == TRUE

\* the test of the next token in the loop of Parser.synchronize
begins_statement(token_type) == token_type \in StatementKinds

\* Parser.synchronize up to its while loop: self.advance()
SynchronizeCall ==
    /\ pc = "parser"
    /\ parser_current < Len(tokens)
    /\ parser_current' = Parser_advance(tokens, parser_current)
    /\ pc' = "synchronize"
    /\ raised' = "none"
    /\ called' = {"synchronize"}
    /\ UNCHANGED <<mode, lines_read, source, start, current, line, tokens, had_error,
                   had_runtime_error, stderr, expression, printed, exit_status>>

\* one test of the loop condition of Parser.synchronize and, when it holds, one
\* turn of the loop: return behind a `;` or in front of a statement keyword,
\* otherwise advance
SynchronizeLoop ==
    /\ pc = "synchronize"
    /\ IF Parser_is_at_end(tokens, parser_current)
       THEN pc' = "parser" /\ UNCHANGED parser_current
       ELSE IF Parser_previous(tokens, parser_current).token_type = "SEMICOLON"
       THEN pc' = "parser" /\ UNCHANGED parser_current
       ELSE IF begins_statement(Parser_peek(tokens, parser_current).token_type)
       THEN pc' = "parser" /\ UNCHANGED parser_current
       ELSE pc' = "synchronize" /\ parser_current' = Parser_advance(tokens, parser_current)
    /\ UNCHANGED <<mode, lines_read, source, start, current, line, tokens, had_error,
                   had_runtime_error, stderr, expression, printed, raised, exit_status,
                   called>>

NextParser ==
    \/ Peek
    \/ Previous
    \/ Check
    \/ Advance
    \/ Match
    \/ Consume
    \/ SynchronizeCall
    \/ SynchronizeLoop

\* synchronize is one call of a sequential program: once inside its loop it
\* keeps running
SpecParser == InitParser /\ [][NextParser]_vars /\ WF_vars(SynchronizeLoop)

(***************************************************************************)
(* Properties                                                              *)
(***************************************************************************)
\* the nodes of a tree
RECURSIVE SubExprs(_)
SubExprs(e) ==
    {e} \cup (CASE e.type = "Grouping" -> SubExprs(e.expression)
                [] e.type = "Unary" -> SubExprs(e.right)
                [] e.type = "Binary" -> SubExprs(e.left) \cup SubExprs(e.right)
                [] OTHER -> {})

\* the language's kind of a value: number, string, boolean or nil
LoxKind(v) ==
    CASE v.kind \in {"int", "float"} -> "number"
      [] v.kind = "str" -> "string"
      [] v.kind = "bool" -> "boolean"
      [] v.kind = "nil" -> "nil"

\* Interpreter.interpret was entered for the current input
Evaluated == "interpret" \in called

\* the diagnostics on stderr with the message `message`
Reports(message) == {i \in 1..Len(stderr) : stderr[i].message = message}

\* C1: once the scanner has met a string literal with no closing quote it has
\* reported "Unterminated string" exactly once, has raised nothing, holds no
\* STRING token without its closing quote, and returns tokens ending in EOF.
C1_UnterminatedString ==
    Reports(<<"Unterminated string">>) # {} =>
        /\ Cardinality(Reports(<<"Unterminated string">>)) = 1
        /\ raised = "none"
        /\ \A i \in 1..Len(tokens) :
              tokens[i].token_type = "STRING" =>
                  Len(tokens[i].lexeme) >= 2 /\ tokens[i].lexeme[Len(tokens[i].lexeme)] = "\""
        /\ pc # "scan" => tokens # <<>> /\ tokens[Len(tokens)].token_type = "EOF"

\* C2: in every parsed tree that is evaluated, a Grouping node evaluates to
\* exactly what its inner expression evaluates to, and (1 + 2) * 3 evaluates to 9.
C2_GroupingPassThrough ==
    Evaluated =>
        /\ \A g \in SubExprs(expression) :
              g.type = "Grouping" => evaluate(g) = evaluate(g.expression)
        /\ source = <<"(", "1", " ", "+", " ", "2", ")", " ", "*", " ", "3">> =>
              evaluate(expression) = Returned(FloatValue(9, 1))

\* C3: in every parsed tree that is evaluated, a Unary node with the operator !
\* evaluates to the negation of its operand's truthiness, nil and false alone
\* being falsy.
C3_BangNegatesTruthiness ==
    Evaluated =>
        \A u \in SubExprs(expression) :
            (u.type = "Unary" /\ u.operator.token_type = "BANG"
                /\ evaluate(u.right).exc = "none") =>
                evaluate(u) =
                    Returned(BoolValue(evaluate(u.right).value \in
                                           {NoneValue, BoolValue(FALSE)}))

\* C4: in every parsed tree that is evaluated, a Unary node with the operator -
\* evaluates to the negated number when its operand is a number, and otherwise
\* raises the runtime error "Operand must be a number" carrying the - token.
C4_MinusNegatesNumbers ==
    Evaluated =>
        \A u \in SubExprs(expression) :
            (u.type = "Unary" /\ u.operator.token_type = "MINUS"
                /\ evaluate(u.right).exc = "none") =>
                IF LoxKind(evaluate(u.right).value) = "number"
                THEN evaluate(u) = Returned(FloatValue(-evaluate(u.right).value.num,
                                                       evaluate(u.right).value.den))
                ELSE /\ evaluate(u).exc = "LoxRuntimeError"
                     /\ evaluate(u).message = <<"Operand must be a number">>
                     /\ evaluate(u).operator = u.operator

\* C5: in every parsed tree that is evaluated, + adds two numbers, concatenates
\* two strings, and fails with the type-mismatch error on every other pair of
\* operand kinds.
C5_PlusOverload ==
    Evaluated =>
        \A b \in SubExprs(expression) :
            (b.type = "Binary" /\ b.operator.token_type = "PLUS"
                /\ evaluate(b.left).exc = "none" /\ evaluate(b.right).exc = "none") =>
                LET l == evaluate(b.left).value
                    r == evaluate(b.right).value
                IN  IF LoxKind(l) = "number" /\ LoxKind(r) = "number"
                    THEN /\ evaluate(b).exc = "none"
                         /\ evaluate(b).value.num * l.den * r.den =
                                evaluate(b).value.den * (l.num * r.den + r.num * l.den)
                    ELSE IF LoxKind(l) = "string" /\ LoxKind(r) = "string"
                    THEN evaluate(b) = Returned(StrValue(l.str \o r.str))
                    ELSE /\ evaluate(b).exc \in {"LoxRuntimeError", "InterpretationError"}
                         /\ evaluate(b).message = <<"mismatched types">>

\* C6: in every parsed tree that is evaluated, == holds of two values exactly
\* when they are of the same kind and the same value, and != is its negation.
C6_EqualityWithoutCoercion ==
    Evaluated =>
        \A b \in SubExprs(expression) :
            (b.type = "Binary" /\ b.operator.token_type \in {"EQUAL_EQUAL", "BANG_EQUAL"}
                /\ evaluate(b.left).exc = "none" /\ evaluate(b.right).exc = "none") =>
                LET l == evaluate(b.left).value
                    r == evaluate(b.right).value
                    same == /\ LoxKind(l) = LoxKind(r)
                            /\ l.num = r.num /\ l.den = r.den /\ l.str = r.str
                IN  evaluate(b) =
                        Returned(BoolValue(IF b.operator.token_type = "EQUAL_EQUAL"
                                           THEN same ELSE ~same))

\* C7: once Interpreter.interpret has run on a parsed tree, no exception has
\* escaped it, and it has either printed one value or reported one runtime error
\* (stated for the trees that do not divide by zero, so that what it fails on
\* is a mismatch of operand types).
C7_InterpretCatchesTypeErrors ==
    (Evaluated /\ evaluate(expression).exc # "ZeroDivisionError") =>
        /\ raised = "none"
        /\ \/ Len(printed) = 1 /\ "runtime_error" \notin called /\ stderr = <<>>
           \/ printed = <<>> /\ "runtime_error" \in called /\ Len(stderr) = 1

\* C8: once ErrorReporter.runtime_error has been called with a runtime error of
\* the evaluator, the message is on stderr and had_runtime_error is true.
C8_RuntimeErrorSetsFlag ==
    "runtime_error" \in called =>
        /\ raised = "none"
        /\ Len(stderr) = 1
        /\ had_runtime_error = TRUE

\* C9: Interpreter.interpret is not entered for an input for which a lexical or a
\* syntactic error was reported.
C9_NoEvaluationAfterError ==
    (pc = "interpret" \/ Evaluated) =>
        "scan_error" \notin called /\ "parse_error" \notin called

\* C9, reached: Lox.run returned without evaluating a tree that was parsed,
\* because the scanner had reported an error
C9_Witness ==
    /\ pc = "returned"
    /\ "scan_error" \in called
    /\ "parse_error" \notin called
    /\ expression.type # "None"
    /\ ~Evaluated

\* C10: at the prompt, a line for which no lexical or syntactic error is reported
\* is evaluated, whatever the lines before it were.
C10_LinesAreIndependent ==
    (mode = "prompt" /\ pc = "returned"
        /\ "scan_error" \notin called /\ "parse_error" \notin called) => Evaluated

\* C11: when Scanner.scan_tokens has returned, the tokens end with exactly one
\* EOF token, that token's lexeme is empty, and no earlier token is an EOF.
C11_EofTokenLast ==
    (pc = "parse") =>
        /\ tokens # <<>>
        /\ tokens[Len(tokens)].token_type = "EOF"
        /\ tokens[Len(tokens)].lexeme = <<>>
        /\ \A i \in 1..(Len(tokens) - 1) : tokens[i].token_type # "EOF"

\* the reserved words of the language and the token kind of each
ReservedWords ==
    [lexeme \in {<<"a", "n", "d">>,
                 <<"c", "l", "a", "s", "s">>,
                 <<"e", "l", "s", "e">>,
                 <<"f", "a", "l", "s", "e">>,
                 <<"f", "u", "n">>,
                 <<"f", "o", "r">>,
                 <<"i", "f">>,
                 <<"n", "i", "l">>,
                 <<"o", "r">>,
                 <<"p", "r", "i", "n", "t">>,
                 <<"r", "e", "t", "u", "r", "n">>,
                 <<"s", "u", "p", "e", "r">>,
                 <<"t", "h", "i", "s">>,
                 <<"t", "r", "u", "e">>,
                 <<"v", "a", "r">>,
                 <<"w", "h", "i", "l", "e">>} |->
        CASE lexeme = <<"a", "n", "d">> -> "AND"
          [] lexeme = <<"c", "l", "a", "s", "s">> -> "CLASS"
          [] lexeme = <<"e", "l", "s", "e">> -> "ELSE"
          [] lexeme = <<"f", "a", "l", "s", "e">> -> "FALSE"
          [] lexeme = <<"f", "u", "n">> -> "FUN"
          [] lexeme = <<"f", "o", "r">> -> "FOR"
          [] lexeme = <<"i", "f">> -> "IF"
          [] lexeme = <<"n", "i", "l">> -> "NIL"
          [] lexeme = <<"o", "r">> -> "OR"
          [] lexeme = <<"p", "r", "i", "n", "t">> -> "PRINT"
          [] lexeme = <<"r", "e", "t", "u", "r", "n">> -> "RETURN"
          [] lexeme = <<"s", "u", "p", "e", "r">> -> "SUPER"
          [] lexeme = <<"t", "h", "i", "s">> -> "THIS"
          [] lexeme = <<"t", "r", "u", "e">> -> "TRUE"
          [] lexeme = <<"v", "a", "r">> -> "VAR"
          [] lexeme = <<"w", "h", "i", "l", "e">> -> "WHILE"]

\* a letter or underscore followed by letters and digits
IdentifierShaped(lexeme) ==
    /\ lexeme # <<>>
    /\ isidentifier(lexeme[1])
    /\ \A i \in 2..Len(lexeme) : isalnum(lexeme[i])

\* C12: every token scanned from a reserved word has that word's own kind, and
\* every token scanned from any other identifier-shaped lexeme is an IDENTIFIER.
C12_KeywordsAreReserved ==
    \A i \in 1..Len(tokens) :
        (tokens[i].token_type # "EOF" /\ IdentifierShaped(tokens[i].lexeme)) =>
            tokens[i].token_type =
                IF tokens[i].lexeme \in DOMAIN ReservedWords
                THEN ReservedWords[tokens[i].lexeme]
                ELSE "IDENTIFIER"

\* the diagnostics on stderr that Parser.error wrote
ParseReports ==
    {i \in 1..Len(stderr) :
        stderr[i].message \in {<<"Expect expression.">>, <<"Expect ')' after expression.">>}}

\* Parser.parse has returned for the current input of Lox.run
ParseReturned == mode \in {"prompt", "file"} /\ pc \in {"interpret", "returned"}

\* C13: once Parser.parse has returned, it has reported at most one syntactic
\* error; it returned None exactly when it reported one, and a tree exactly when
\* it reported none; for ( 1 + 2 with the closing parenthesis missing it reported
\* the one error "Expect ')' after expression." at the end and returned None.
C13_OneErrorNoTree ==
    ParseReturned =>
        /\ Cardinality(ParseReports) <= 1
        /\ (Cardinality(ParseReports) = 1) <=> (expression = NoneExpr)
        /\ (Cardinality(ParseReports) = 1) <=> ("parse_error" \in called)
        /\ source = <<"(", "1", " ", "+", " ", "2">> =>
              /\ expression = NoneExpr
              /\ stderr = <<Diagnostic(1, <<" at end">>, <<"Expect ')' after expression.">>)>>

\* C13, reached: the parser has returned None for ( 1 + 2 after one report
C13_Witness ==
    /\ ParseReturned
    /\ source = <<"(", "1", " ", "+", " ", "2">>
    /\ Cardinality(ParseReports) = 1
    /\ expression = NoneExpr

\* the operators of the grammar's term and factor levels
TermKinds == {"MINUS", "PLUS"}
FactorKinds == {"SLASH", "STAR"}

\* a Binary node whose operator is one of `kinds`
IsBinaryOf(e, kinds) == e.type = "Binary" /\ e.operator.token_type \in kinds

\* the tokens are NUMBER a NUMBER b NUMBER EOF with a of kindsA and b of kindsB
IsChain(kindsA, kindsB) ==
    /\ Len(tokens) = 6
    /\ \A i \in {1, 3, 5} : tokens[i].token_type = "NUMBER"
    /\ tokens[2].token_type \in kindsA
    /\ tokens[4].token_type \in kindsB
    /\ tokens[6].token_type = "EOF"

\* C14: in every tree the parser returns, no operand of a * or / node is itself
\* a + or - node (only a parenthesised one, a Grouping, can stand there); x + y * z
\* has + at the root with the product on its right, x * y + z has + at the root
\* with the product on its left; and 1 + 2 * 3 prints as (+ 1.0 (* 2.0 3.0)).
C14_Precedence ==
    (ParseReturned /\ expression # NoneExpr) =>
        /\ \A b \in SubExprs(expression) :
              IsBinaryOf(b, FactorKinds) =>
                  ~IsBinaryOf(b.left, TermKinds) /\ ~IsBinaryOf(b.right, TermKinds)
        /\ IsChain(TermKinds, FactorKinds) =>
              /\ IsBinaryOf(expression, TermKinds)
              /\ expression.left.type = "Literal"
              /\ IsBinaryOf(expression.right, FactorKinds)
        /\ IsChain(FactorKinds, TermKinds) =>
              /\ IsBinaryOf(expression, TermKinds)
              /\ IsBinaryOf(expression.left, FactorKinds)
              /\ expression.right.type = "Literal"
        /\ source = <<"1", " ", "+", " ", "2", " ", "*", " ", "3">> =>
              AstPrinter_print(expression) =
                  <<"(", "+", " ", "1", ".", "0", " ",
                    "(", "*", " ", "2", ".", "0", " ", "3", ".", "0", ")", ")">>

\* C14, reached: a sum whose right operand is a product was parsed from a line
\* without parentheses
C14_Witness ==
    /\ ParseReturned
    /\ IsChain(TermKinds, FactorKinds)
    /\ IsBinaryOf(expression, TermKinds)
    /\ IsBinaryOf(expression.right, FactorKinds)

\* the operators of the grammar's equality and comparison levels
EqualityKinds == {"BANG_EQUAL", "EQUAL_EQUAL"}
ComparisonKinds == {"GREATER", "GREATER_EQUAL", "LESS", "LESS_EQUAL"}

\* the four binary levels of the grammar
BinaryLevels == {EqualityKinds, ComparisonKinds, TermKinds, FactorKinds}

\* C15: in every tree the parser returns, the right operand of a Binary node is
\* never a Binary node of the same grammar level (only a parenthesised one can
\* stand there); x op y op z with both operators of one level is parsed as
\* (x op y) op z; and 8 - 4 - 2 evaluates to 2.
C15_LeftAssociative ==
    (ParseReturned /\ expression # NoneExpr) =>
        /\ \A b \in SubExprs(expression) : \A level \in BinaryLevels :
              IsBinaryOf(b, level) => ~IsBinaryOf(b.right, level)
        /\ \A level \in BinaryLevels :
              IsChain(level, level) =>
                  /\ expression.type = "Binary"
                  /\ expression.operator = tokens[4]
                  /\ expression.right = Literal(tokens[5].literal)
                  /\ expression.left =
                        Binary(Literal(tokens[1].literal), tokens[2], Literal(tokens[3].literal))
        /\ (source = <<"8", " ", "-", " ", "4", " ", "-", " ", "2">> /\ Evaluated) =>
              /\ evaluate(expression) = Returned(FloatValue(2, 1))
              /\ printed = <<<<"2", ".", "0">>>>

\* C15, reached: 8 - 4 - 2 was parsed into a left-leaning chain and evaluated
C15_Witness ==
    /\ source = <<"8", " ", "-", " ", "4", " ", "-", " ", "2">>
    /\ Evaluated
    /\ IsBinaryOf(expression, TermKinds)
    /\ IsBinaryOf(expression.left, TermKinds)
    /\ printed = <<<<"2", ".", "0">>>>

\* C16: in every parsed tree that is evaluated, a / node whose operands evaluate
\* to numbers, the right one to zero, evaluates to a value: nothing is raised.
C16_DivisionByZeroYieldsValue ==
    Evaluated =>
        \A b \in SubExprs(expression) :
            (/\ IsBinaryOf(b, {"SLASH"})
             /\ evaluate(b.left).exc = "none" /\ evaluate(b.right).exc = "none"
             /\ LoxKind(evaluate(b.left).value) = "number"
             /\ LoxKind(evaluate(b.right).value) = "number"
             /\ evaluate(b.right).value.num = 0) =>
                /\ evaluate(b).exc = "none"
                /\ raised = "none"

\* a character with which no token, comment, string or white space begins
StartsNoToken(c) ==
    /\ c \notin DOMAIN SingleCharTokens \cup DOMAIN TwoCharTokens
    /\ c \notin {"/", " ", "\r", "\t", "\n", "\""}
    /\ ~isdigit(c)
    /\ ~isidentifier(c)

\* the diagnostics on stderr that say "Unexpected character"
UnexpectedReports ==
    {i \in 1..Len(stderr) : stderr[i].message[1] = "Unexpected character ["}

\* C17: a turn of the loop of Scanner.scan_tokens raises nothing unless it
\* reports an unterminated string, and the scanner stays in its loop; a turn
\* that begins at a character starting no token reports "Unexpected character"
\* for it once, adds no token and moves on by that one character; a turn that
\* begins at any other character reports no unexpected character.
C17_UnexpectedCharacterSkipped ==
    [][(pc = "scan" /\ ~Scanner_is_at_end(source, current)) =>
          /\ Reports(<<"Unterminated string">>)' = {} => (raised' = "none" /\ pc' = "scan")
          /\ IF StartsNoToken(source[current + 1])
             THEN /\ stderr' = Append(stderr, Diagnostic(line, <<>>,
                                   <<"Unexpected character [", source[current + 1], "]">>))
                  /\ tokens' = tokens
                  /\ current' = current + 1
                  /\ pc' = "scan"
             ELSE UnexpectedReports' = UnexpectedReports]_vars

\* what holds of the cursor when Parser.synchronize has returned: it is at the EOF
\* token, or behind a `;`, or in front of a statement keyword
Synchronized ==
    \/ tokens[parser_current + 1].token_type = "EOF"
    \/ parser_current > 0 /\ tokens[parser_current].token_type = "SEMICOLON"
    \/ tokens[parser_current + 1].token_type \in
           {"CLASS", "FUN", "VAR", "FOR", "IF", "WHILE", "PRINT", "RETURN"}

\* C18: Parser.synchronize first moves the cursor past the token it is called
\* at (it stays only at the EOF token); when it returns the cursor is at the EOF
\* token, or behind a `;`, or in front of one of class, fun, var, for, if, while,
\* print, return; and every call returns.
C18_SynchronizeStops ==
    /\ [][/\ (pc = "parser" /\ pc' = "synchronize") =>
                parser_current' = IF tokens[parser_current + 1].token_type = "EOF"
                                  THEN parser_current ELSE parser_current + 1
          /\ (pc = "synchronize" /\ pc' = "synchronize") =>
                parser_current' = parser_current + 1
          /\ (pc = "synchronize" /\ pc' = "parser") =>
                (parser_current' = parser_current /\ Synchronized')]_vars
    /\ (pc = "synchronize") ~> (pc = "parser")

\* C18, reached: synchronize has returned in front of a statement keyword after
\* discarding the token it was called at and the one behind it
C18_Witness ==
    /\ pc = "parser"
    /\ called = {"synchronize"}
    /\ parser_current >= 2
    /\ tokens[parser_current].token_type = "NUMBER"
    /\ tokens[parser_current + 1].token_type \in {"VAR", "FOR"}

\* C19: the cursor starts inside the token sequence, at or before the EOF token
\* that ends it; no call of a cursor method moves it back or past that EOF token;
\* and no call reads the token list outside its range.
C19_CursorForwardInRange ==
    /\ [](/\ parser_current >= 0
          /\ parser_current <= Len(tokens) - 1
          /\ tokens[Len(tokens)].token_type = "EOF"
          /\ raised # "IndexError")
    /\ [][parser_current' >= parser_current]_vars

\* C19, reached: the cursor stands on the EOF token of a full-length sequence,
\* where a call of consume has just failed without moving it
C19_Witness ==
    /\ mode = "parser"
    /\ Len(tokens) = MaxTokens + 1
    /\ parser_current = Len(tokens) - 1
    /\ raised = "ParseError"

====
